---- MODULE Spec2Model ----
(***************************************************************************)
(* Model of the network-provisioning firmware of pawbot (src/NanoWeb.py,   *)
(* src/bootx.py): the credential store CredManager, the polling primitive  *)
(* retry_until, the ConnectionManager and the HTTP engine Nanoweb.         *)
(*                                                                         *)
(* Python values are modelled as follows.  A str is a TLA+ string, the     *)
(* empty str being "".  A dict is the sequence of its <<key, value>> items *)
(* in iteration order, keys unique.  A tuple or a list is a sequence.      *)
(* None, in a position that otherwise holds a tuple, is Nothing.           *)
(***************************************************************************)
EXTENDS Integers, Sequences, FiniteSets, TLC

VARIABLES
    credentials,  \* CredManager.credentials: the in-memory dict
    file,         \* the backing file wifi.dat
    net,          \* ghost: the net effect of the mutator calls on the store
    lastOp,       \* ghost: the last CredManager method called, with its result
    stack,        \* per task: the call stack of coroutine frames, innermost last
    rv,           \* per task: the value returned, or the exception raised, by
                  \* the frame that ended last
    sta,          \* the station radio network.WLAN(STA_IF)
    apActive,     \* the access-point radio network.WLAN(AP_IF) is active
    portal,       \* the captive-portal server task has been created
    linkAvail,    \* scenario: a network in range accepts the station
    rlog,         \* ghost, per task: the latest retry_until call
    log,          \* ghost, per task: the events of the current top-level call
    io,           \* per connection task: the request the peer sends, the
                  \* chunks written to it, whether it was closed, and the
                  \* route handlers invoked for it
    static,       \* the files in STATIC_DIR
    running,      \* the task the event loop is running, "none" between two
                  \* tasks: a task keeps the processor until it awaits a
                  \* sleep or the socket
    pure,         \* the call of a function checked on its own: its
                  \* arguments and its result
    saved         \* ghost: the names whose /wifi/add was answered
                  \* "credentials saved", no clear() having run since the add

storeVars == <<credentials, file, net, lastOp>>
connVars == <<stack, rv, sta, apActive, portal, linkAvail, rlog, log, io, static,
              running, pure, saved>>
httpVars == <<io, static, pure, saved>>
vars == <<credentials, file, net, lastOp,
          stack, rv, sta, apActive, portal, linkAvail, rlog, log, io, static,
          running, pure, saved>>

----------------------------------------------------------------------------
(* Bounds and input sets *)

MaxSsids == 2

SsidPool == <<"home", "office", "cafe", "lab", "attic">>
Ssids == {SsidPool[i] : i \in 1..MaxSsids}

\* secrets offered to the store; "" is the falsy str
Passwords == {"", "pw1", "pw2"}

Nothing == <<>>

\* Python truthiness of a str
Truthy(s) == s # ""

----------------------------------------------------------------------------
(* dict *)

DictKeys(d) == {d[i][1] : i \in 1..Len(d)}

DictHas(d, k) == \E i \in 1..Len(d) : d[i][1] = k

DictIndex(d, k) == CHOOSE i \in 1..Len(d) : d[i][1] = k

DictVal(d, k) == d[DictIndex(d, k)][2]

\* d[k] = v with every item appended, a key already present included
DictSetAppend(d, k, v) == Append(d, <<k, v>>)

\* d[k] = v
DictSet(d, k, v) ==
    IF DictHas(d, k)
    THEN [d EXCEPT ![DictIndex(d, k)] = <<k, v>>]
    ELSE Append(d, <<k, v>>)

\* del d[k]
DictDel(d, k) ==
    LET i == DictIndex(d, k)
    IN  SubSeq(d, 1, i - 1) \o SubSeq(d, i + 1, Len(d))

\* every dict over the given keys and values, in every iteration order
RECURSIVE DictsOver(_, _)
DictsOver(keys, vals) ==
    IF keys = {} THEN {<<>>}
    ELSE {<<>>} \cup
         UNION {{<<<<k, v>>>> \o rest : rest \in DictsOver(keys \ {k}, vals)} :
                    <<k, v>> \in keys \X vals}

----------------------------------------------------------------------------
(* The backing file: missing, not parseable as JSON, or a JSON object *)

FileMissing == [state |-> "missing", data |-> <<>>]
FileCorrupt == [state |-> "corrupt", data |-> <<>>]
FileJson(d) == [state |-> "json", data |-> d]

\* open(storage, 'r') and json.load succeed
Loadable(f) == f.state = "json"

----------------------------------------------------------------------------
(* CredManager *)

\* CredManager.load: the mapping after the call
CredLoad(f) == IF Loadable(f) THEN f.data ELSE <<>>

\* a save that leaves an empty object in the file
CredSaveEmpty(creds) == FileJson(<<>>)

\* the awaited body of CredManager.save: the file after the call
CredSaveBody(creds) == FileJson(creds)

\* self.save() inside a mutator: save is an async def, so the call only
\* builds a coroutine object, which is dropped without ever being run
CredSaveCall(creds, f) == f

\* CredManager.get without the truthiness test on the secret
CredGetAny(creds, ssid) ==
    IF DictHas(creds, ssid) THEN <<ssid, DictVal(creds, ssid)>> ELSE Nothing

\* CredManager.get
CredGet(creds, ssid) ==
    IF DictHas(creds, ssid) /\ Truthy(DictVal(creds, ssid))
    THEN <<ssid, DictVal(creds, ssid)>>
    ELSE Nothing

\* CredManager.list
CredList(creds) == [i \in 1..Len(creds) |-> <<creds[i][1], creds[i][2]>>]

Absent == "<absent>"

NetOf(creds) ==
    [s \in Ssids |-> IF DictHas(creds, s) THEN DictVal(creds, s) ELSE Absent]

Op(name, ssid, password, ret) ==
    [op |-> name, ssid |-> ssid, password |-> password, ret |-> ret]

\* CredManager.add(ssid, password)
StoreAdd ==
    \E s \in Ssids, p \in Passwords :
        /\ credentials' = DictSet(credentials, s, p)
        /\ file' = CredSaveCall(credentials', file)
        /\ net' = [net EXCEPT ![s] = p]
        /\ lastOp' = Op("add", s, p, Nothing)
        /\ UNCHANGED connVars

\* CredManager.remove(ssid)
StoreRemove ==
    \E s \in Ssids :
        /\ IF DictHas(credentials, s)
           THEN /\ credentials' = DictDel(credentials, s)
                /\ file' = CredSaveCall(credentials', file)
                /\ lastOp' = Op("remove", s, "", <<"present">>)
           ELSE /\ UNCHANGED <<credentials, file>>
                /\ lastOp' = Op("remove", s, "", <<"absent">>)
        /\ net' = [net EXCEPT ![s] = Absent]
        /\ UNCHANGED connVars

\* CredManager.clear()
StoreClear ==
    /\ credentials' = <<>>
    /\ file' = CredSaveCall(credentials', file)
    /\ net' = [s \in Ssids |-> Absent]
    /\ lastOp' = Op("clear", "", "", Nothing)
    /\ UNCHANGED connVars

\* CredManager.get(ssid)
StoreGet ==
    \E s \in Ssids :
        /\ lastOp' = Op("get", s, "", CredGet(credentials, s))
        /\ UNCHANGED <<credentials, file, net>>
        /\ UNCHANGED connVars

\* CredManager.list()
StoreList ==
    /\ lastOp' = Op("list", "", "", CredList(credentials))
    /\ UNCHANGED <<credentials, file, net>>
    /\ UNCHANGED connVars

\* CredManager.load(): the ghost net effect restarts from the loaded mapping
StoreLoad ==
    /\ credentials' = CredLoad(file)
    /\ net' = NetOf(credentials')
    /\ lastOp' = Op("load", "", "", Nothing)
    /\ UNCHANGED file
    /\ UNCHANGED connVars

\* await CredManager.save()
StoreSave ==
    /\ file' = CredSaveBody(credentials)
    /\ lastOp' = Op("save", "", "", Nothing)
    /\ UNCHANGED <<credentials, net>>
    /\ UNCHANGED connVars

----------------------------------------------------------------------------
(* Numbers.  Python's / is true division: its result is a float, also     *)
(* when the quotient is whole.  An int is num/1 with float = FALSE.        *)

PyInt(n) == [float |-> FALSE, num |-> n, den |-> 1]

\* a / b
TrueDiv(a, b) == [float |-> TRUE, num |-> a, den |-> b]

\* bool to the str of it
PyBool(b) == IF b THEN "True" ELSE "False"

----------------------------------------------------------------------------
(* Tasks and coroutine frames *)

TaskIds == {"main", "conn", "conn2"}

\* the tasks that serve a connection each
ConnIds == {"conn", "conn2"}

Frame(fn, pc, loc) == [fn |-> fn, pc |-> pc, loc |-> loc]

NoLoc == [none |-> "none"]

NoRv == [kind |-> "none", val |-> "None"]
Ret(v) == [kind |-> "ret", val |-> v]
Exc(e) == [kind |-> "exc", val |-> e]

Depth(t) == Len(stack[t])
Top(t) == stack[t][Len(stack[t])]
Pop(s) == SubSeq(s, 1, Len(s) - 1)

\* task t is at a step of function fn
At(t, fn) == Depth(t) > 0 /\ Top(t).fn = fn

\* the function whose frame called the innermost one
Caller(t) == IF Depth(t) > 1 THEN stack[t][Depth(t) - 1].fn ELSE "none"

\* the handlers of the captive portal whose body is a try ... except
\* Exception
JsonHandlers == {"__wifi_scan", "__wifi_add", "__wifi_list", "__wifi_clear",
                 "__wifi_connect"}

\* the frame is inside a try block that takes the exceptions raised under
\* it: a handler of the portal up to its except clause, handle once it has
\* its request line
Catches(f) ==
    IF f.fn = "handle" THEN f.pc # "readline"
    ELSE IF f.fn \in JsonHandlers THEN f.pc # "failing"
    ELSE f.fn = "driver"

\* the stack after an exception leaves the frames that do not catch it
RECURSIVE Unwind(_)
Unwind(s) ==
    IF s = <<>> THEN <<>>
    ELSE IF Catches(s[Len(s)]) THEN s
    ELSE Unwind(Pop(s))

Ev(e, a) == [e |-> e, a |-> a]

Emit(t, evs) == log' = [log EXCEPT ![t] = @ \o evs]

\* the innermost frame moves to pc and calls the frames in callees
CallFrom(t, pc, callees) ==
    /\ stack' = [stack EXCEPT ![t] =
                    [@ EXCEPT ![Len(@)] = [@ EXCEPT !.pc = pc]] \o callees]
    /\ rv' = [rv EXCEPT ![t] = NoRv]

\* the innermost frame moves to pc
Goto(t, pc) ==
    /\ stack' = [stack EXCEPT ![t] = [@ EXCEPT ![Len(@)] = [@ EXCEPT !.pc = pc]]]
    /\ rv' = [rv EXCEPT ![t] = NoRv]

\* the innermost frame returns v
Return(t, v) ==
    /\ stack' = [stack EXCEPT ![t] = Pop(@)]
    /\ rv' = [rv EXCEPT ![t] = Ret(v)]

\* the innermost frame raises e
Raise(t, e) ==
    /\ stack' = [stack EXCEPT ![t] = Unwind(Pop(@))]
    /\ rv' = [rv EXCEPT ![t] = Exc(e)]

\* the frame awaits a sleep or the socket: the event loop may run another
\* task before this one goes on
Suspended(f) ==
    <<f.fn, f.pc>> \in {<<"retry_until", "sleep">>, <<"main", "forever">>,
                        <<"handle", "readline">>, <<"handle", "headers">>,
                        <<"__wifi_add", "reading">>,
                        <<"error", "drain">>, <<"json_write", "drain">>,
                        <<"json_error", "drain">>, <<"send_file", "drain">>,
                        <<"driver", "idle">>, <<"driver", "wait">>}

\* uasyncio runs one task at a time and switches only where the running task
\* awaits a sleep or the socket, or ends
Sched(t) ==
    /\ running \in {"none", t}
    /\ running' = IF stack'[t] = <<>> THEN "none"
                  ELSE IF Suspended(stack'[t][Len(stack'[t])]) THEN "none"
                  ELSE t

----------------------------------------------------------------------------
(* The station radio *)

StaOff == [active |-> FALSE, connected |-> FALSE, want |-> FALSE]

\* wlan_sta.active(b)
StaActive(s, b) ==
    IF b THEN [s EXCEPT !.active = TRUE] ELSE StaOff

\* wlan_sta.connect(ssid, password)
StaConnect(s) == [s EXCEPT !.want = TRUE]

\* wlan_sta.disconnect()
StaDisconnect(s) == [s EXCEPT !.want = FALSE]

\* wlan_sta.isconnected()
IsConnected == sta.connected

\* the radio associates with the network it was asked to join
RadioUp ==
    /\ linkAvail
    /\ sta.active /\ sta.want /\ ~sta.connected
    /\ sta' = [sta EXCEPT !.connected = TRUE]
    /\ UNCHANGED <<stack, rv, apActive, portal, linkAvail, rlog, log, running>>
    /\ UNCHANGED httpVars
    /\ UNCHANGED storeVars

\* the radio loses or drops the association
RadioDown ==
    /\ sta.connected
    /\ sta' = [sta EXCEPT !.connected = FALSE]
    /\ UNCHANGED <<stack, rv, apActive, portal, linkAvail, rlog, log, running>>
    /\ UNCHANGED httpVars
    /\ UNCHANGED storeVars

----------------------------------------------------------------------------
(* retry_until(predicate, action, max_retries, delay_ms); the action is    *)
(* ConnectionManager.__connected in every call of the repository           *)

\* lambda result: result == True / lambda result: result == False
Predicate(pred, result) ==
    IF pred = "isTrue" THEN result = "True" ELSE result = "False"

RetryFrame(pred, max) ==
    Frame("retry_until", "range", [pred |-> pred, max |-> max, i |-> 0])

NewRlog(pred, max) ==
    [pred |-> pred, max |-> max, calls |-> 0, delays |-> 0, sat |-> 0,
     out |-> "running", ok |-> "None", result |-> "None"]

\* the loop of a version that makes one attempt too many
RetryLastOffByOne(i, n) == i >= n

\* for i in range(n): attempt i was the last one
RetryLast(i, n) == i + 1 >= n

\* a version that sleeps before it tests the predicate
RetrySleepsFirst(satisfied) == FALSE

\* the attempt returns at once iff the predicate holds
RetryReturnsAtOnce(satisfied) == satisfied

RetryUntil(t) ==
    /\ At(t, "retry_until")
    /\ LET f == Top(t)
           max == f.loc.max
           result == PyBool(IsConnected)
           holds == Predicate(f.loc.pred, result)
       IN
       CASE f.pc = "range" ->
              \* for i in range(max_retries): range takes no float
              IF max.float
              THEN /\ Raise(t, "TypeError")
                   /\ rlog' = [rlog EXCEPT ![t] = [@ EXCEPT !.out = "raise"]]
                   /\ Emit(t, <<Ev("raise", "TypeError")>>)
              ELSE IF max.num <= 0
              THEN /\ Return(t, <<"False", "None">>)
                   /\ rlog' = [rlog EXCEPT ![t] =
                                 [@ EXCEPT !.out = "ret", !.ok = "False"]]
                   /\ UNCHANGED log
              ELSE /\ Goto(t, "attempt")
                   /\ UNCHANGED <<rlog, log>>
         [] f.pc = "attempt" ->
              \* result = action(); if predicate(result): return True, result
              IF RetryReturnsAtOnce(holds)
              THEN /\ Return(t, <<"True", result>>)
                   /\ rlog' = [rlog EXCEPT ![t] =
                                 [@ EXCEPT !.calls = @ + 1,
                                           !.sat = IF holds THEN rlog[t].calls + 1 ELSE @,
                                           !.out = "ret", !.ok = "True",
                                           !.result = result]]
                   /\ Emit(t, <<Ev("poll:" \o Caller(t), result)>>)
              ELSE \* await asyncio.sleep_ms(delay_ms): the task is suspended
                   /\ Goto(t, "sleep")
                   /\ rlog' = [rlog EXCEPT ![t] =
                                 [@ EXCEPT !.calls = @ + 1,
                                           !.sat = IF holds /\ @ = 0
                                                   THEN rlog[t].calls + 1 ELSE @]]
                   /\ Emit(t, <<Ev("poll:" \o Caller(t), result)>>)
         [] f.pc = "sleep" ->
              \* the sleep is over; the next attempt, or return False, None
              IF RetryLast(f.loc.i, max.num)
              THEN /\ Return(t, <<"False", "None">>)
                   /\ rlog' = [rlog EXCEPT ![t] =
                                 [@ EXCEPT !.delays = @ + 1,
                                           !.out = "ret", !.ok = "False"]]
                   /\ UNCHANGED log
              ELSE /\ stack' = [stack EXCEPT ![t] =
                        [@ EXCEPT ![Len(@)] =
                            [@ EXCEPT !.pc = "attempt", !.loc.i = @ + 1]]]
                   /\ rv' = [rv EXCEPT ![t] = NoRv]
                   /\ rlog' = [rlog EXCEPT ![t] = [@ EXCEPT !.delays = @ + 1]]
                   /\ UNCHANGED log
    /\ UNCHANGED <<sta, apActive, portal, linkAvail>>
    /\ Sched(t)
    /\ UNCHANGED httpVars
    /\ UNCHANGED storeVars

----------------------------------------------------------------------------
(* ConnectionManager *)

DelayMs == 1000
DefaultTimeoutMs == 10000
ConnectedRetries == 3
DisconnectRetries == 3

ConnectedFrame(max) == Frame("connected", "start", [max |-> max])

ConnectFrame(ssid, password, timeout_ms) ==
    Frame("connect", "start",
          [ssid |-> ssid, password |-> password, timeout_ms |-> timeout_ms])

\* ConnectionManager.connected(max_retries, delay_ms)
Connected(t) ==
    /\ At(t, "connected")
    /\ LET f == Top(t) IN
       IF f.pc = "start"
       THEN /\ CallFrom(t, "wait", <<RetryFrame("isTrue", f.loc.max)>>)
            /\ rlog' = [rlog EXCEPT ![t] = NewRlog("isTrue", f.loc.max)]
       ELSE \* success, _ = await retry_until(...); return success
            /\ Return(t, rv[t].val[1])
            /\ UNCHANGED rlog
    /\ UNCHANGED <<sta, apActive, portal, linkAvail, log>>
    /\ Sched(t)
    /\ UNCHANGED httpVars
    /\ UNCHANGED storeVars

\* a disconnect that waits for the station to report connected
DisconnectPredicateIsTrue == "isTrue"

\* predicate=lambda result: result == False
DisconnectPredicate == "isFalse"

\* ConnectionManager.disconnect()
Disconnect(t) ==
    /\ At(t, "disconnect")
    /\ LET f == Top(t) IN
       IF f.pc = "start"
       THEN IF IsConnected
            THEN /\ sta' = StaDisconnect(sta)
                 /\ CallFrom(t, "wait",
                        <<RetryFrame(DisconnectPredicate, PyInt(DisconnectRetries))>>)
                 /\ rlog' = [rlog EXCEPT ![t] =
                                NewRlog(DisconnectPredicate, PyInt(DisconnectRetries))]
                 /\ Emit(t, <<Ev("check:disconnect", "True"),
                              Ev("sta", "disconnect")>>)
            ELSE /\ Return(t, "True")
                 /\ Emit(t, <<Ev("check:disconnect", "False"),
                              Ev("ret:disconnect", "True")>>)
                 /\ UNCHANGED <<sta, rlog>>
       ELSE /\ Return(t, rv[t].val[1])
            /\ Emit(t, <<Ev("ret:disconnect", rv[t].val[1])>>)
            /\ UNCHANGED <<sta, rlog>>
    /\ UNCHANGED <<apActive, portal, linkAvail>>
    /\ Sched(t)
    /\ UNCHANGED httpVars
    /\ UNCHANGED storeVars

\* a connect that polls int(timeout_ms // delay_ms) times
ConnectRetriesFloor(timeout_ms) == PyInt(timeout_ms \div DelayMs)

\* max_retries = timeout_ms/delay_ms
ConnectRetries(timeout_ms) == TrueDiv(timeout_ms, DelayMs)

\* ConnectionManager.connect(ssid, password, timeout_ms)
Connect(t) ==
    /\ At(t, "connect")
    /\ LET f == Top(t) IN
       IF f.pc = "start"
       THEN /\ sta' = StaConnect(StaActive(sta, TRUE))
            /\ CallFrom(t, "wait",
                   <<ConnectedFrame(ConnectRetries(f.loc.timeout_ms))>>)
            /\ Emit(t, <<Ev("sta", "active(True)"), Ev("sta", "connect")>>)
       ELSE IF rv[t].val = "False"
            THEN /\ sta' = StaActive(sta, FALSE)
                 /\ Return(t, "False")
                 /\ Emit(t, <<Ev("sta", "active(False)"),
                              Ev("ret:connect", "False")>>)
            ELSE /\ Return(t, "True")
                 /\ Emit(t, <<Ev("ret:connect", "True")>>)
                 /\ UNCHANGED sta
    /\ UNCHANGED <<apActive, portal, linkAvail, rlog>>
    /\ Sched(t)
    /\ UNCHANGED httpVars
    /\ UNCHANGED storeVars

\* ConnectionManager.auto_connect()
AutoConnect(t) ==
    /\ At(t, "auto_connect")
    /\ LET f == Top(t)
           creds == IF f.pc = "start" THEN CredList(credentials) ELSE f.loc.creds
           idx == IF f.pc = "start" THEN 1 ELSE f.loc.idx + 1
       IN
       IF f.pc = "start" /\ creds = <<>>
       THEN \* if not credentials: return False
            /\ Return(t, "False")
            /\ Emit(t, <<Ev("ret:auto_connect", "False")>>)
       ELSE IF f.pc = "wait" /\ rv[t].val = "True"
       THEN /\ Return(t, "True")
            /\ Emit(t, <<Ev("ret:auto_connect", "True")>>)
       ELSE IF idx <= Len(creds)
       THEN \* success = await self.connect(ssid, password)
            /\ stack' = [stack EXCEPT ![t] =
                  [@ EXCEPT ![Len(@)] =
                       [@ EXCEPT !.pc = "wait",
                                 !.loc = [creds |-> creds, idx |-> idx]]]
                  \o <<ConnectFrame(creds[idx][1], creds[idx][2],
                                    DefaultTimeoutMs)>>]
            /\ rv' = [rv EXCEPT ![t] = NoRv]
            /\ Emit(t, <<Ev("call:connect", creds[idx][1])>>)
       ELSE /\ Return(t, "False")
            /\ Emit(t, <<Ev("ret:auto_connect", "False")>>)
    /\ UNCHANGED <<sta, apActive, portal, linkAvail, rlog>>
    /\ Sched(t)
    /\ UNCHANGED httpVars
    /\ UNCHANGED storeVars

AutoConnectFrame == Frame("auto_connect", "start", [creds |-> <<>>, idx |-> 0])

\* a boot that runs auto_connect whatever the connectivity check found
BootNeedsAutoAlways(isConnected) == TRUE

\* if not await self.connected():
BootNeedsAuto(isConnected) == isConnected = "False"

\* ConnectionManager.boot(event_loop)
Boot(t) ==
    /\ At(t, "boot")
    /\ LET f == Top(t) IN
       CASE f.pc = "start" ->
              \* await self.disconnect()
              /\ CallFrom(t, "disconnected", <<Frame("disconnect", "start", NoLoc)>>)
              /\ Emit(t, <<Ev("call:disconnect", "")>>)
         [] f.pc = "disconnected" ->
              \* await self.connected()
              /\ CallFrom(t, "polled", <<ConnectedFrame(PyInt(ConnectedRetries))>>)
              /\ UNCHANGED log
         [] f.pc = "polled" ->
              IF BootNeedsAuto(rv[t].val)
              THEN /\ CallFrom(t, "auto", <<AutoConnectFrame>>)
                   /\ Emit(t, <<Ev("call:auto_connect", "")>>)
              ELSE /\ Return(t, "True")
                   /\ Emit(t, <<Ev("ret:boot", "True")>>)
         [] f.pc = "auto" ->
              /\ Return(t, rv[t].val)
              /\ Emit(t, <<Ev("ret:boot", rv[t].val)>>)
    /\ UNCHANGED <<sta, apActive, portal, linkAvail, rlog>>
    /\ Sched(t)
    /\ UNCHANGED httpVars
    /\ UNCHANGED storeVars

\* bytes.decode('utf-8'): the code points of the str, or UnicodeError for
\* bytes that are no UTF-8 (sequences of one and of two bytes are modelled)
RECURSIVE Utf8Decode(_)
Utf8Decode(bs) ==
    IF bs = <<>> THEN [ok |-> TRUE, chars |-> <<>>]
    ELSE IF bs[1] < 128
    THEN LET rest == Utf8Decode(Tail(bs)) IN
         [ok |-> rest.ok, chars |-> <<bs[1]>> \o rest.chars]
    ELSE IF bs[1] \in 194..223 /\ Len(bs) >= 2 /\ bs[2] \in 128..191
    THEN LET rest == Utf8Decode(Tail(Tail(bs))) IN
         [ok |-> rest.ok,
          chars |-> <<(bs[1] - 192) * 64 + (bs[2] - 128)>> \o rest.chars]
    ELSE [ok |-> FALSE, chars |-> <<>>]

\* ConnectionManager.is_printable(s): all(31 < ord(c) < 127 for c in s)
IsPrintable(chars) == \A i \in 1..Len(chars) : 31 < chars[i] /\ chars[i] < 127

HexDigits == <<"0", "1", "2", "3", "4", "5", "6", "7", "8", "9",
               "a", "b", "c", "d", "e", "f">>

\* '{:02x}'.format(b)
Hex02(b) == HexDigits[(b \div 16) + 1] \o HexDigits[(b % 16) + 1]

\* ':'.join(['{:02x}'.format(b) for b in bssid])
RECURSIVE FormatBssid(_)
FormatBssid(bssid) ==
    IF bssid = <<>> THEN ""
    ELSE IF Len(bssid) = 1 THEN Hex02(bssid[1])
    ELSE Hex02(bssid[1]) \o ":" \o FormatBssid(Tail(bssid))

\* sorted(networks, key=lambda network: network[3], reverse=True): the lists
\* the sort may return.  The sort of MicroPython is a quicksort and is not
\* stable, so that networks of equal strength come out in any order.
SortedByRssi(networks) ==
    {[i \in 1..Len(networks) |-> networks[p[i]]] : p \in
        {q \in Permutations(1..Len(networks)) :
            \A i, j \in 1..Len(networks) :
                i < j => networks[q[i]].rssi >= networks[q[j]].rssi}}

\* the list comprehension of scan_available_networks over the sorted
\* networks: the tuples (ssid, bssid, rssi) kept, or the exception raised
RECURSIVE ScanTuples(_)
ScanTuples(sorted_networks) ==
    IF sorted_networks = <<>> THEN Ret(<<>>)
    ELSE LET network == sorted_networks[1]
             ssid == Utf8Decode(network.ssid)
             rest == ScanTuples(Tail(sorted_networks))
         IN  IF ~ssid.ok THEN Exc("UnicodeError")
             ELSE IF rest.kind = "exc" THEN rest
             ELSE IF ssid.chars # <<>> /\ IsPrintable(ssid.chars)
             THEN Ret(<<<<ssid.chars, FormatBssid(network.bssid), network.rssi>>>>
                      \o rest.val)
             ELSE rest

\* ConnectionManager.disable_ap(): the access point afterwards
DisableAp == FALSE

\* ConnectionManager.enable_ap(): the access point afterwards
EnableAp == TRUE

----------------------------------------------------------------------------
(* bootx.main *)

Main(t) ==
    /\ At(t, "main")
    /\ Top(t).pc # "forever"
    /\ LET f == Top(t) IN
       CASE f.pc = "start" ->
              \* success = await manager.boot(event_loop)
              /\ CallFrom(t, "booted", <<Frame("boot", "start", NoLoc)>>)
              /\ Emit(t, <<Ev("call:boot", "")>>)
              /\ UNCHANGED <<apActive, portal>>
         [] f.pc = "booted" ->
              IF rv[t].val = "True"
              THEN \* manager.disable_ap(); main returns
                   /\ apActive' = DisableAp
                   /\ Return(t, "None")
                   /\ Emit(t, <<Ev("ap", "disable_ap")>>)
                   /\ UNCHANGED portal
              ELSE \* manager.initialize_access_point(event_loop), then
                   \* event_loop.run_forever()
                   /\ apActive' = EnableAp
                   /\ portal' = TRUE
                   /\ Goto(t, "forever")
                   /\ Emit(t, <<Ev("ap", "enable_ap")>>)
    /\ UNCHANGED <<sta, linkAvail, rlog>>
    /\ Sched(t)
    /\ UNCHANGED httpVars
    /\ UNCHANGED storeVars

----------------------------------------------------------------------------
(* Nanoweb: the HTTP engine.  A line read from the peer is the sequence of *)
(* its pieces: tokens and runs of whitespace.  b'' (end of stream) is <<>>. *)

Whitespace == {" ", "\t", "\r\n"}

\* str.split(): the pieces that are not whitespace
Split(line) == SelectSeq(line, LAMBDA p : p \notin Whitespace)

\* if len(items) != 3
BadRequestLine(items) == Len(items) # 3

\* an engine that accepts every version
SupportedVersionsAll == {"HTTP/1.0", "HTTP/1.1", "HTTP/2.0"}

SupportedVersions == {"HTTP/1.0", "HTTP/1.1"}

ExtractHeaders == {"Authorization", "Content-Length", "Content-Type"}

AssetsExtensions == {"html", "css", "js"}

IndexFile == "./index.html"

\* naw.routes, set by ConnectionManager.start_access_portal
Routes == <<"/ping", "/wifi/scan", "/wifi/add", "/wifi/list", "/wifi/clear",
            "/wifi/connect">>

\* the characters of the strs that are compared by prefix or by suffix
Chars(s) ==
    CASE s = "" -> <<>>
      [] s = "/" -> <<"/">>
      [] s = "/ping" -> <<"/", "p", "i", "n", "g">>
      [] s = "/wifi/scan" -> <<"/", "w", "i", "f", "i", "/", "s", "c", "a", "n">>
      [] s = "/wifi/add" -> <<"/", "w", "i", "f", "i", "/", "a", "d", "d">>
      [] s = "/wifi/list" -> <<"/", "w", "i", "f", "i", "/", "l", "i", "s", "t">>
      [] s = "/wifi/clear" ->
             <<"/", "w", "i", "f", "i", "/", "c", "l", "e", "a", "r">>
      [] s = "/wifi/connect" ->
             <<"/", "w", "i", "f", "i", "/", "c", "o", "n", "n", "e", "c", "t">>
      [] s = "/app.js" -> <<"/", "a", "p", "p", ".", "j", "s">>
      [] s = "/nope" -> <<"/", "n", "o", "p", "e">>
      [] s = "GET" -> <<"G", "E", "T">>
      [] s = "POST" -> <<"P", "O", "S", "T">>
      [] s = "HTTP/1.1" -> <<"H", "T", "T", "P", "/", "1", ".", "1">>
      [] s = "HTTP/2.0" -> <<"H", "T", "T", "P", "/", "2", ".", "0">>
      [] s = "html" -> <<"h", "t", "m", "l">>
      [] s = "css" -> <<"c", "s", "s">>
      [] s = "js" -> <<"j", "s">>

\* str.startswith
StartsWith(u, prefix) ==
    Len(prefix) <= Len(u) /\ SubSeq(u, 1, Len(prefix)) = prefix

\* str.endswith
EndsWith(u, suffix) ==
    Len(suffix) <= Len(u) /\ SubSeq(u, Len(u) - Len(suffix) + 1, Len(u)) = suffix

\* what the engine serves: the route whose handler it runs, the index
\* document, a static file, the 404 error, or the exception it raises
Served(kind, route) == [kind |-> kind, route |-> route]

\* a lookup that never finds the url in the table
RouteLookupNever(routes, url) == FALSE

\* if request.url in self.routes
RouteLookup(routes, url) == \E i \in 1..Len(routes) : routes[i] = url

\* for route, handler in self.routes.items(): the index of the first route
\* the loop stops at, 0 when it ends without a break, -1 when route[-1]
\* raises IndexError
RECURSIVE WildcardSearch(_, _, _)
WildcardSearch(routes, url, i) ==
    IF i > Len(routes) THEN 0
    ELSE LET route == routes[i] IN
         IF route = url THEN i
         ELSE IF route = <<>> THEN -1
         ELSE IF route[Len(route)] = "*"
                 /\ StartsWith(url, SubSeq(route, 1, Len(route) - 1))
         THEN i
         ELSE WildcardSearch(routes, url, i + 1)

\* the routing of Nanoweb.handle: routes is the sequence of the patterns of
\* self.routes in iteration order, url the request url
SelectRoute(routes, url) ==
    IF RouteLookup(routes, url)
    THEN Served("route", url)
    ELSE LET w == WildcardSearch(routes, url, 1) IN
         IF w = -1 THEN Served("IndexError", <<>>)
         ELSE IF w > 0 THEN Served("route", routes[w])
         ELSE IF url \in {Chars(""), Chars("/")} THEN Served("index", <<>>)
         ELSE IF \E extension \in AssetsExtensions :
                    EndsWith(url, <<".">> \o Chars(extension))
         THEN Served("asset", <<>>)
         ELSE Served("404", <<>>)

\* the route table of the captive portal
PortalRoutes == [i \in 1..Len(Routes) |-> Chars(Routes[i])]

\* what one call of request.write sends: a status line, a header line or a
\* piece of the body; blank tells whether the blank line that ends the
\* headers follows in the same call
StatusLine(code, reason, blank) ==
    [kind |-> "status", code |-> code, reason |-> reason, blank |-> blank]

HeaderLine(name, value, blank) ==
    [kind |-> "header", name |-> name, value |-> value, blank |-> blank]

\* a body of JSON text stands for the value the text denotes: a dict for the
\* sequence of its items, a list for the sequence of its elements
Body(mime, val) == [kind |-> "body", mime |-> mime, val |-> val]

\* error(request, code, reason): the chunks written
ErrorChunks(code, reason) ==
    <<StatusLine(code, reason, TRUE),
      Body("html", "<h1>" \o reason \o "</h1>")>>

\* json_write(request, response_json): the chunks written
JsonWriteChunks(json) ==
    <<StatusLine(200, "OK", FALSE),
      HeaderLine("Content-Type", "application/json", TRUE),
      Body("json", json)>>

\* json_error(request, code, reason, message): the chunks written
JsonErrorChunks(code, reason, message) ==
    <<StatusLine(code, reason, FALSE),
      HeaderLine("Content-Type", "application/json", TRUE),
      Body("json", <<<<"error", message>>>>)>>

\* send_file(request, filename) of a file that exists: the chunks written
SendFileChunks(filename) == <<Body("file", filename)>>

\* the body a peer sends is JSON text, or not: what the text is (an object,
\* an array, no JSON, nothing), the items of the object, and its length
Text(kind, obj, len) == [kind |-> kind, obj |-> obj, len |-> len]

NoBody == Text("empty", <<>>, 0)

\* a connection: the request of the peer, the chunks written to it, whether
\* it was closed, the route handlers invoked for it, the header lines read,
\* whether its task has ended, whether its transport has failed.  Ghost:
\* the exceptions raised inside its handler, the exception that left the
\* handler, the name its handler added to the store, whether its handler
\* changed the store, the access point when its handler started, the
\* answered names when its handler listed the store, and whether a write was
\* attempted after its transport had failed.
NewIo(req) ==
    [req |-> req, written |-> <<>>, closed |-> FALSE, invoked |-> <<>>,
     hread |-> 0, ended |-> FALSE, broken |-> FALSE, accepted |-> TRUE,
     raised |-> <<>>, escaped |-> "", added |-> "", touched |-> FALSE,
     ap0 |-> FALSE, snap |-> {}, late |-> FALSE]

\* no connection yet
NoIo(req) == [NewIo(req) EXCEPT !.accepted = FALSE]

\* the transport of connection c fails at an I/O operation: it has failed
\* before, or the peer or the network fails it now
Fails(c, now) == c.broken \/ (now /\ c.req.fault # "none")

\* the OSError the failed transport of connection c raises
OsError(c) == "OSError:" \o c.req.fault

\* the coroutines that only write: they are suspended before each write
Writers == {"error", "json_write", "json_error", "send_file"}

WriterFrame(fn, chunks) == Frame(fn, "drain", [chunks |-> chunks, i |-> 1])

\* error, json_write, json_error and send_file: await request.write(...)
\* for one chunk after the other
Write(t) ==
    /\ Depth(t) > 0 /\ Top(t).fn \in Writers
    /\ LET f == Top(t)
           c == io[t]
       IN  \E now \in BOOLEAN :
             IF Fails(c, now)
             THEN /\ Raise(t, OsError(c))
                  /\ io' = [io EXCEPT ![t] =
                        [@ EXCEPT !.broken = TRUE, !.late = @ \/ c.broken]]
             ELSE /\ io' = [io EXCEPT ![t] =
                        [@ EXCEPT !.written = Append(@, f.loc.chunks[f.loc.i])]]
                  /\ IF f.loc.i = Len(f.loc.chunks)
                     THEN Return(t, "None")
                     ELSE /\ stack' = [stack EXCEPT ![t] =
                                [@ EXCEPT ![Len(@)] = [@ EXCEPT !.loc.i = @ + 1]]]
                          /\ rv' = [rv EXCEPT ![t] = NoRv]
    /\ Sched(t)
    /\ UNCHANGED <<sta, apActive, portal, linkAvail, rlog, log, static, pure,
                   saved>>
    /\ UNCHANGED storeVars

\* the handler start_access_portal registers for the route
HandlerOf(route) ==
    CASE route = "/ping" -> "__ping"
      [] route = "/wifi/scan" -> "__wifi_scan"
      [] route = "/wifi/add" -> "__wifi_add"
      [] route = "/wifi/list" -> "__wifi_list"
      [] route = "/wifi/clear" -> "__wifi_clear"
      [] route = "/wifi/connect" -> "__wifi_connect"

HandleFrame ==
    Frame("handle", "readline",
          [method |-> "", url |-> "", version |-> "", headers |-> <<>>])

\* Nanoweb.handle(reader, writer)
Handle(t) ==
    /\ At(t, "handle")
    /\ LET f == Top(t)
           c == io[t]
           items == Split(c.req.line)
           url == f.loc.url
           \* finally: await writer.aclose(); then the task ends, with the
           \* exception e if there is one
           Close(e, broken) ==
               /\ io' = [io EXCEPT ![t] =
                     [@ EXCEPT !.closed = TRUE, !.ended = TRUE,
                               !.broken = broken,
                               !.escaped = IF rv[t].kind = "exc" /\ f.pc = "output"
                                           THEN rv[t].val ELSE @]]
               /\ IF e = "" THEN Return(t, "None") ELSE Raise(t, e)
           \* except OSError as e: if e.args[0] != uerrno.ECONNRESET: raise
           Skip(e) == IF e = "OSError:ECONNRESET" THEN "" ELSE e
           \* except HttpError as e: await self.callback_error(request,
           \* code, message)
           Error(code, reason) ==
               /\ CallFrom(t, "error",
                      <<WriterFrame("error", ErrorChunks(code, reason))>>)
               /\ UNCHANGED io
           \* send_file(request, filename)
           SendFile(filename) ==
               IF filename \in static
               THEN /\ CallFrom(t, "output",
                          <<WriterFrame("send_file", SendFileChunks(filename))>>)
                    /\ UNCHANGED io
               ELSE Error(404, "File Not Found")
       IN
       CASE f.pc = "readline" ->
              \* items = (await reader.readline()).decode('ascii').split()
              \E now \in BOOLEAN :
                IF Fails(c, now)
                THEN /\ Raise(t, OsError(c))
                     /\ io' = [io EXCEPT ![t] =
                           [@ EXCEPT !.ended = TRUE, !.broken = TRUE]]
                ELSE IF BadRequestLine(items)
                THEN /\ Return(t, "None")
                     /\ io' = [io EXCEPT ![t] = [@ EXCEPT !.ended = TRUE]]
                ELSE /\ stack' = [stack EXCEPT ![t] =
                           [@ EXCEPT ![Len(@)] =
                              [@ EXCEPT !.pc = "version",
                                        !.loc.method = items[1],
                                        !.loc.url = items[2],
                                        !.loc.version = items[3]]]]
                     /\ rv' = [rv EXCEPT ![t] = NoRv]
                     /\ UNCHANGED io
         [] f.pc = "version" ->
              IF f.loc.version \notin SupportedVersions
              THEN Error(505, "Version Not Supported")
              ELSE /\ Goto(t, "headers")
                   /\ UNCHANGED io
         [] f.pc = "headers" ->
              \* one more header line; the blank line or the end of the
              \* stream ends the headers
              \E now \in BOOLEAN :
                IF Fails(c, now)
                THEN Close(Skip(OsError(c)), TRUE)
                ELSE IF c.hread < Len(c.req.headers)
                THEN LET h == c.req.headers[c.hread + 1] IN
                     /\ stack' = [stack EXCEPT ![t] =
                           [@ EXCEPT ![Len(@)] =
                              [@ EXCEPT !.loc.headers =
                                   IF h[1] \in ExtractHeaders
                                   THEN DictSet(@, h[1], h[2]) ELSE @]]]
                     /\ rv' = [rv EXCEPT ![t] = NoRv]
                     /\ io' = [io EXCEPT ![t] = [@ EXCEPT !.hread = @ + 1]]
                ELSE /\ Goto(t, "route")
                     /\ UNCHANGED io
         [] f.pc = "route" ->
              LET sel == SelectRoute(PortalRoutes, Chars(url)) IN
              IF sel.kind = "route"
              THEN \* await self.generate_output(request, handler): the
                   \* handlers of the portal are coroutine functions
                   /\ CallFrom(t, "output",
                          <<Frame(HandlerOf(url), "start",
                                  [headers |-> f.loc.headers])>>)
                   /\ io' = [io EXCEPT ![t] =
                         [@ EXCEPT !.invoked = Append(@, url)]]
              ELSE IF sel.kind = "index"
              THEN SendFile(IndexFile)
              ELSE IF sel.kind = "asset"
              THEN SendFile(".//" \o url)
              ELSE Error(404, "File Not Found")
         [] f.pc \in {"output", "error"} ->
              \* the output or the error response is written, or an
              \* exception came out of it
              IF rv[t].kind = "exc"
              THEN Close(Skip(rv[t].val), c.broken)
              ELSE Close("", c.broken)
    /\ Sched(t)
    /\ UNCHANGED <<sta, apActive, portal, linkAvail, rlog, log, static, pure,
                   saved>>
    /\ UNCHANGED storeVars

\* ConnectionManager.__ping(request)
Ping(t) ==
    /\ At(t, "__ping")
    /\ IF Top(t).pc = "start"
       THEN CallFrom(t, "responding",
                <<WriterFrame("json_write",
                              JsonWriteChunks(<<<<"status", "pong">>>>))>>)
       ELSE Return(t, "None")
    /\ Sched(t)
    /\ UNCHANGED <<sta, apActive, portal, linkAvail, rlog, log, static, pure, io,
                   saved>>
    /\ UNCHANGED storeVars

\* int(request.headers['Content-Length']): the decimal numerals the peers
\* send; any other value raises ValueError
Numerals == {<<"0", 0>>, <<"2", 2>>, <<"40", 40>>}

IsNumeral(v) == \E n \in Numerals : n[1] = v

IntOf(v) == (CHOOSE n \in Numerals : n[1] = v)[2]

\* await request.read(length): the first length bytes of the body; a
\* proper prefix of JSON text is no JSON text
ReadBody(text, length) ==
    IF length >= text.len THEN text
    ELSE IF length = 0 THEN NoBody
    ELSE Text("garbage", <<>>, length)

\* json_read: json.loads(content), or json.loads("{}") when that raises
JsonRead(text) ==
    IF text.kind \in {"object", "array"} THEN text ELSE Text("object", <<>>, 2)

\* content.get(key): None is the falsy ""
JsonGet(obj, key) == IF DictHas(obj, key) THEN DictVal(obj, key) ELSE ""

\* a handler that shows the stored secret
ClearPassword(password) == password

\* {"ssid": ssid, "password": "****"}
MaskedPassword(password) == "****"

\* json.dumps({"credentials": [{"ssid": ssid, "password": "****"} for ssid,
\* password in self.cred_manager.list()]})
WifiListJson(list) ==
    <<<<"credentials",
        [i \in 1..Len(list) |->
            <<<<"ssid", list[i][1]>>,
              <<"password", MaskedPassword(list[i][2])>>>>]>>>>

\* json.dumps({"networks": [{"ssid": ssid, "mac": mac, "rssi": rssi} ...]})
WifiScanJson(tuples) ==
    <<<<"networks",
        [i \in 1..Len(tuples) |->
            <<<<"ssid", tuples[i][1]>>, <<"mac", tuples[i][2]>>,
              <<"rssi", tuples[i][3]>>>>]>>>>

StatusJson(status) == <<<<"status", status>>>>

\* await json_write(request, json): the handler waits at pc for it
Respond(t, pc, json) ==
    CallFrom(t, pc, <<WriterFrame("json_write", JsonWriteChunks(json))>>)

\* await json_error(request, 400, "Bad Request", message), inside the try
BadRequest(t, message) ==
    CallFrom(t, "responding",
        <<WriterFrame("json_error",
                      JsonErrorChunks(400, "Bad Request", message))>>)

\* except Exception as e: print(e); await json_error(request, 500,
\* "Internal Server Error", "Internal Server Error")
InternalError(t) ==
    CallFrom(t, "failing",
        <<WriterFrame("json_error",
                      JsonErrorChunks(500, "Internal Server Error",
                                      "Internal Server Error"))>>)

\* ghost: the exception e was raised inside the handler of connection t
Raised(t, e) == [io EXCEPT ![t] = [@ EXCEPT !.raised = Append(@, e)]]

\* the end of a handler of the portal: its response is written, or the
\* write raised; an exception of the write in the try is answered by the
\* except clause, one of the write in the except clause leaves the handler
AfterResponse(t) ==
    IF Top(t).pc = "failing" \/ rv[t].kind # "exc"
    THEN /\ Return(t, "None")
         /\ UNCHANGED io
    ELSE /\ InternalError(t)
         /\ io' = Raised(t, rv[t].val)

\* ConnectionManager.__wifi_list(request)
WifiList(t) ==
    /\ At(t, "__wifi_list")
    /\ IF Top(t).pc = "start"
       THEN /\ Respond(t, "responding", WifiListJson(CredList(credentials)))
            /\ io' = [io EXCEPT ![t] = [@ EXCEPT !.snap = saved]]
       ELSE AfterResponse(t)
    /\ Sched(t)
    /\ UNCHANGED <<sta, apActive, portal, linkAvail, rlog, log, static, pure,
                   saved>>
    /\ UNCHANGED storeVars

\* ConnectionManager.__wifi_clear(request)
WifiClear(t) ==
    /\ At(t, "__wifi_clear")
    /\ IF Top(t).pc = "start"
       THEN \* self.cred_manager.clear(); await self.cred_manager.save()
            /\ credentials' = <<>>
            /\ file' = CredSaveBody(credentials')
            /\ net' = [s \in Ssids |-> Absent]
            /\ lastOp' = Op("save", "", "", Nothing)
            /\ Respond(t, "responding", StatusJson("credentials cleared"))
            /\ saved' = {}
            /\ io' = [u \in TaskIds |->
                        IF u = t THEN [io[u] EXCEPT !.touched = TRUE]
                        ELSE [io[u] EXCEPT !.added = ""]]
       ELSE /\ AfterResponse(t)
            /\ UNCHANGED <<credentials, file, net, lastOp, saved>>
    /\ Sched(t)
    /\ UNCHANGED <<sta, apActive, portal, linkAvail, rlog, log, static, pure>>

\* ConnectionManager.__wifi_add(request)
WifiAdd(t) ==
    /\ At(t, "__wifi_add")
    /\ LET f == Top(t)
           c == io[t]
           headers == f.loc.headers
           \* ssid = content.get('ssid'); password = content.get('password')
           \* and the rest of the try block; broken tells whether the
           \* transport has failed by now
           Validate(content, broken) ==
               LET c1 == [c EXCEPT !.broken = broken] IN
               IF content.kind = "array"
               THEN \* a list has no get
                    /\ InternalError(t)
                    /\ io' = [io EXCEPT ![t] =
                          [c1 EXCEPT !.raised = Append(@, "AttributeError")]]
                    /\ UNCHANGED <<credentials, file, net, lastOp>>
               ELSE LET ssid == JsonGet(content.obj, "ssid")
                        password == JsonGet(content.obj, "password")
                    IN  IF ~Truthy(ssid) \/ ~Truthy(password)
                        THEN /\ BadRequest(t,
                                  "both ssid and password must be provided")
                             /\ io' = [io EXCEPT ![t] = c1]
                             /\ UNCHANGED <<credentials, file, net, lastOp>>
                        ELSE \* self.cred_manager.add(ssid, password)
                             \* await self.cred_manager.save()
                             /\ credentials' = DictSet(credentials, ssid, password)
                             /\ file' = CredSaveBody(credentials')
                             /\ net' = [net EXCEPT ![ssid] = password]
                             /\ lastOp' = Op("save", "", "", Nothing)
                             /\ Respond(t, "answering",
                                        StatusJson("credentials saved"))
                             /\ io' = [io EXCEPT ![t] =
                                   [c1 EXCEPT !.added = ssid, !.touched = TRUE]]
       IN
       CASE f.pc = "start" ->
              \* content = await json_read(request): read(request) first
              /\ UNCHANGED saved
              /\ IF ~DictHas(headers, "Content-Length")
                 THEN Validate(JsonRead(NoBody), c.broken)
                 ELSE IF ~IsNumeral(DictVal(headers, "Content-Length"))
                 THEN /\ InternalError(t)
                      /\ io' = Raised(t, "ValueError")
                      /\ UNCHANGED <<credentials, file, net, lastOp>>
                 ELSE /\ Goto(t, "reading")
                      /\ UNCHANGED <<credentials, file, net, lastOp, io>>
         [] f.pc = "reading" ->
              \* content = await request.read(length); an exception of it
              \* is caught in read and leaves content = ""
              /\ UNCHANGED saved
              /\ \E now \in BOOLEAN :
                   IF Fails(c, now)
                   THEN Validate(JsonRead(NoBody), TRUE)
                   ELSE Validate(JsonRead(ReadBody(c.req.body,
                            IntOf(DictVal(headers, "Content-Length")))), FALSE)
         [] f.pc = "answering" ->
              \* "credentials saved" is written, or the write raised
              /\ UNCHANGED <<credentials, file, net, lastOp>>
              /\ IF rv[t].kind = "exc"
                 THEN /\ InternalError(t)
                      /\ io' = Raised(t, rv[t].val)
                      /\ UNCHANGED saved
                 ELSE /\ Return(t, "None")
                      /\ saved' = IF c.added = "" THEN saved
                                  ELSE saved \cup {c.added}
                      /\ UNCHANGED io
         [] OTHER ->
              /\ AfterResponse(t)
              /\ UNCHANGED <<credentials, file, net, lastOp, saved>>
    /\ Sched(t)
    /\ UNCHANGED <<sta, apActive, portal, linkAvail, rlog, log, static, pure>>

\* what wlan_sta.scan() returns while the portal runs
PortalScans ==
    LET mac == <<0, 26, 43, 60, 77, 94>>
        good == [ssid |-> <<65>>, bssid |-> mac, rssi |-> -40]
        bad == [ssid |-> <<255>>, bssid |-> mac, rssi |-> -70]
    IN  {<<>>, <<good>>, <<good, bad>>}

\* ConnectionManager.__wifi_scan(request)
WifiScan(t) ==
    /\ At(t, "__wifi_scan")
    /\ IF Top(t).pc = "start"
       THEN \E networks \in PortalScans :
              \E sorted_networks \in SortedByRssi(networks) :
                LET tuples == ScanTuples(sorted_networks) IN
                IF tuples.kind = "exc"
                THEN /\ InternalError(t)
                     /\ io' = Raised(t, tuples.val)
                ELSE /\ Respond(t, "responding", WifiScanJson(tuples.val))
                     /\ UNCHANGED io
       ELSE AfterResponse(t)
    /\ Sched(t)
    /\ UNCHANGED <<sta, apActive, portal, linkAvail, rlog, log, static, pure,
                   saved>>
    /\ UNCHANGED storeVars

\* ConnectionManager.__wifi_connect(request)
WifiConnect(t) ==
    /\ At(t, "__wifi_connect")
    /\ LET f == Top(t) IN
       CASE f.pc = "start" ->
              \* success = await self.auto_connect()
              /\ CallFrom(t, "connecting", <<AutoConnectFrame>>)
              /\ io' = [io EXCEPT ![t] = [@ EXCEPT !.ap0 = apActive]]
              /\ UNCHANGED <<apActive, log>>
         [] f.pc = "connecting" ->
              /\ IF rv[t].kind = "exc"
                 THEN /\ InternalError(t)
                      /\ io' = Raised(t, rv[t].val)
                 ELSE /\ IF rv[t].val = "True"
                         THEN Respond(t, "success", StatusJson("success"))
                         ELSE Respond(t, "responding", StatusJson("failed"))
                      /\ UNCHANGED io
              /\ UNCHANGED <<apActive, log>>
         [] f.pc = "success" ->
              IF rv[t].kind = "exc"
              THEN /\ InternalError(t)
                   /\ io' = Raised(t, rv[t].val)
                   /\ UNCHANGED <<apActive, log>>
              ELSE \* self.disable_ap()
                   /\ apActive' = DisableAp
                   /\ Return(t, "None")
                   /\ Emit(t, <<Ev("ap", "disable_ap")>>)
                   /\ UNCHANGED io
         [] OTHER ->
              /\ AfterResponse(t)
              /\ UNCHANGED <<apActive, log>>
    /\ Sched(t)
    /\ UNCHANGED <<sta, portal, linkAvail, rlog, static, pure, saved>>
    /\ UNCHANGED storeVars

----------------------------------------------------------------------------
(* A caller of the ConnectionManager's methods and of retry_until: it      *)
(* calls one of them, waits for it to return or raise, and calls again     *)

MaxRetries == 3

TimeoutsMs == {1000, 3000, DefaultTimeoutMs}

DriverCalls ==
    {[fn |-> "retry_until", frame |-> RetryFrame(p, m)] :
        p \in {"isTrue", "isFalse"},
        m \in {PyInt(n) : n \in 0..MaxRetries} \cup {TrueDiv(3000, DelayMs)}}
    \cup {[fn |-> "connect", frame |-> ConnectFrame(s, "pw1", ms)] :
            s \in {SsidPool[1]}, ms \in TimeoutsMs}
    \cup {[fn |-> "auto_connect", frame |-> AutoConnectFrame],
          [fn |-> "disconnect", frame |-> Frame("disconnect", "start", NoLoc)],
          [fn |-> "boot", frame |-> Frame("boot", "start", NoLoc)]}

DriverFrame ==
    Frame("driver", "idle", [call |-> "none", args |-> NoLoc, out |-> NoRv])

Driver(t) ==
    /\ At(t, "driver")
    /\ LET f == Top(t) IN
       IF f.pc = "idle"
       THEN \E c \in DriverCalls :
              /\ stack' = [stack EXCEPT ![t] =
                    <<Frame("driver", "wait",
                            [call |-> c.fn, args |-> c.frame.loc, out |-> NoRv]),
                      c.frame>>]
              /\ rv' = [rv EXCEPT ![t] = NoRv]
              /\ rlog' = [rlog EXCEPT ![t] =
                    IF c.fn = "retry_until"
                    THEN NewRlog(c.frame.loc.pred, c.frame.loc.max)
                    ELSE NewRlog("isTrue", PyInt(0))]
              /\ log' = [log EXCEPT ![t] = <<Ev("call:" \o c.fn, "")>>]
       ELSE \* the call returned, or raised and the exception was caught
            /\ stack' = [stack EXCEPT ![t] =
                  <<Frame("driver", "idle", [f.loc EXCEPT !.out = rv[t]])>>]
            /\ rv' = [rv EXCEPT ![t] = NoRv]
            /\ UNCHANGED <<rlog, log>>
    /\ UNCHANGED <<sta, apActive, portal, linkAvail>>
    /\ Sched(t)
    /\ UNCHANGED httpVars
    /\ UNCHANGED storeVars

----------------------------------------------------------------------------
(* Specifications *)

\* the files found at construction
InitFiles ==
    {FileMissing, FileCorrupt} \cup {FileJson(d) : d \in DictsOver(Ssids, {"pw1"})}

\* CredManager.__init__
StoreInit ==
    /\ file \in InitFiles
    /\ credentials = CredLoad(file)
    /\ net = NetOf(credentials)
    /\ lastOp = Op("init", "", "", Nothing)

NoRequest == [line |-> <<>>, headers |-> <<>>, body |-> NoBody, fault |-> "none"]

\* no function is checked on its own
NoPure == [fn |-> "none"]

\* no connection
HttpIdle ==
    /\ io = [t \in TaskIds |-> NoIo(NoRequest)]
    /\ static = {}
    /\ pure = NoPure
    /\ saved = {}

\* no task, radios off
ConnIdle ==
    /\ stack = [t \in TaskIds |-> <<>>]
    /\ rv = [t \in TaskIds |-> NoRv]
    /\ sta = StaOff
    /\ apActive = FALSE
    /\ portal = FALSE
    /\ linkAvail = FALSE
    /\ rlog = [t \in TaskIds |-> NewRlog("isTrue", PyInt(0))]
    /\ log = [t \in TaskIds |-> <<>>]
    /\ running = "none"
    /\ HttpIdle

\* the radios when the program starts: off after a power-on, possibly still
\* up after a soft reset
RadioInit ==
    /\ sta \in {StaOff,
                [active |-> TRUE, connected |-> FALSE, want |-> FALSE],
                [active |-> TRUE, connected |-> FALSE, want |-> TRUE],
                [active |-> TRUE, connected |-> TRUE, want |-> TRUE]}
    /\ apActive \in BOOLEAN
    /\ portal = FALSE
    /\ linkAvail \in BOOLEAN

TaskInit(t0, frame) ==
    /\ stack = [t \in TaskIds |-> IF t = t0 THEN <<frame>> ELSE <<>>]
    /\ rv = [t \in TaskIds |-> NoRv]
    /\ rlog = [t \in TaskIds |-> NewRlog("isTrue", PyInt(0))]
    /\ log = [t \in TaskIds |-> <<>>]
    /\ running = "none"

StoreNext ==
    \/ StoreAdd
    \/ StoreRemove
    \/ StoreClear
    \/ StoreGet
    \/ StoreList
    \/ StoreLoad
    \/ StoreSave

\* the CredManager methods called directly, in any sequence
StoreSpecInit == StoreInit /\ ConnIdle

SpecStore == StoreSpecInit /\ [][StoreNext]_vars

ConnInit == StoreInit /\ RadioInit /\ HttpIdle /\ TaskInit("main", DriverFrame)

ConnNext ==
    \/ \E t \in TaskIds : Driver(t)
    \/ \E t \in TaskIds : RetryUntil(t)
    \/ \E t \in TaskIds : Connected(t)
    \/ \E t \in TaskIds : Disconnect(t)
    \/ \E t \in TaskIds : Connect(t)
    \/ \E t \in TaskIds : AutoConnect(t)
    \/ \E t \in TaskIds : Boot(t)
    \/ RadioUp
    \/ RadioDown

\* the ConnectionManager's methods and retry_until called one after another
SpecConn == ConnInit /\ [][ConnNext]_vars

Init ==
    StoreInit /\ RadioInit /\ HttpIdle /\ TaskInit("main", Frame("main", "start", NoLoc))

\* what happens to the transport of a connection: nothing, a reset by the
\* peer, another failure
Faults == {"none", "ECONNRESET", "ETIMEDOUT"}

\* the request line of the tokens ts: the tokens, a blank between two of
\* them, and the line end
RECURSIVE LineOf(_)
LineOf(ts) ==
    IF ts = <<>> THEN <<"\r\n">>
    ELSE IF Len(ts) = 1 THEN <<ts[1], "\r\n">>
    ELSE <<ts[1], " ">> \o LineOf(Tail(ts))

\* the request line of a request for url
PortalLine(method, url) == LineOf(<<method, url, "HTTP/1.1">>)

JsonHeaders(length) ==
    <<<<"Content-Type", "application/json">>, <<"Content-Length", length>>>>

Request(line, headers, body, fault) ==
    [line |-> line, headers |-> headers, body |-> body, fault |-> fault]

\* the requests the clients of the captive portal send to the routes that
\* read or change what the connections share: the store and the radios
PortalRequests ==
    {Request(PortalLine("GET", "/wifi/list"), <<>>, NoBody, "none")}
    \cup {Request(PortalLine("POST", url), <<>>, NoBody, "none") :
        url \in {"/wifi/clear", "/wifi/connect"}}
    \cup {Request(PortalLine("POST", "/wifi/add"), JsonHeaders("40"),
                  Text("object", <<<<"ssid", "home">>, <<"password", "pw1">>>>, 40),
                  "none")}

\* asyncio.start_server: a client connects and a task runs handle for it;
\* the connection takes the first free slot, and a slot is free again once
\* its task has ended
Accept(t) ==
    /\ portal
    /\ running = "none"
    /\ t \in ConnIds
    /\ stack[t] = <<>>
    /\ t = "conn2" => stack["conn"] # <<>>
    /\ \E req \in PortalRequests : io' = [io EXCEPT ![t] = NewIo(req)]
    /\ stack' = [stack EXCEPT ![t] = <<HandleFrame>>]
    /\ rv' = [rv EXCEPT ![t] = NoRv]
    /\ log' = [log EXCEPT ![t] = <<>>]
    /\ UNCHANGED <<sta, apActive, portal, linkAvail, rlog, static, running, pure,
                   saved>>
    /\ UNCHANGED storeVars

Next ==
    \/ \E t \in TaskIds : Main(t)
    \/ \E t \in TaskIds : Boot(t)
    \/ \E t \in TaskIds : Disconnect(t)
    \/ \E t \in TaskIds : Connected(t)
    \/ \E t \in TaskIds : RetryUntil(t)
    \/ \E t \in TaskIds : AutoConnect(t)
    \/ \E t \in TaskIds : Connect(t)
    \/ RadioUp
    \/ RadioDown
    \/ \E t \in TaskIds : Accept(t)
    \/ \E t \in TaskIds : Handle(t)
    \/ \E t \in TaskIds : Write(t)
    \/ \E t \in TaskIds : WifiAdd(t)
    \/ \E t \in TaskIds : WifiList(t)
    \/ \E t \in TaskIds : WifiClear(t)
    \/ \E t \in TaskIds : WifiConnect(t)

\* bootx.py run from the start of the program
Spec == Init /\ [][Next]_vars

\* the bodies sent to /wifi/add: nothing, text that is no JSON, a JSON
\* array, and objects with each of ssid and password absent, empty or not
AddBodies ==
    {NoBody, Text("garbage", <<>>, 2), Text("array", <<>>, 2)}
    \cup {Text("object", ssid \o password, 40) :
            ssid \in {<<>>, <<<<"ssid", "">>>>, <<<<"ssid", "home">>>>},
            password \in {<<>>, <<<<"password", "">>>>,
                          <<<<"password", "pw2">>>>}}

AddHeaders ==
    {<<>>, JsonHeaders("40"), JsonHeaders("2"), JsonHeaders("0"),
     JsonHeaders("abc")}

\* the requests sent to the routes of the portal, over transports that work
\* and that fail
PortalProbes ==
    {Request(PortalLine("GET", url), <<>>, NoBody, fault) :
        url \in {"/ping", "/wifi/scan", "/wifi/list"}, fault \in Faults}
    \cup {Request(PortalLine("POST", url), <<>>, NoBody, fault) :
        url \in {"/wifi/clear", "/wifi/connect"}, fault \in Faults}
    \cup {Request(PortalLine("POST", "/wifi/add"), headers, body, fault) :
        headers \in AddHeaders, body \in AddBodies, fault \in Faults}

\* the portal runs, with the store as earlier requests left it, and one
\* client connects
PortalInit ==
    /\ StoreInit
    /\ sta \in {StaOff, [active |-> TRUE, connected |-> FALSE, want |-> FALSE]}
    /\ apActive = TRUE
    /\ portal = TRUE
    /\ linkAvail \in BOOLEAN
    /\ stack = [t \in TaskIds |->
                  IF t = "main" THEN <<Frame("main", "forever", NoLoc)>>
                  ELSE IF t = "conn" THEN <<HandleFrame>> ELSE <<>>]
    /\ rv = [t \in TaskIds |-> NoRv]
    /\ rlog = [t \in TaskIds |-> NewRlog("isTrue", PyInt(0))]
    /\ log = [t \in TaskIds |-> <<>>]
    /\ running = "none"
    /\ \E req \in PortalProbes :
          io = [t \in TaskIds |-> IF t = "conn" THEN NewIo(req) ELSE NoIo(NoRequest)]
    /\ static = {}
    /\ pure = NoPure
    /\ saved = {}

PortalNext ==
    \/ \E t \in TaskIds : Handle(t)
    \/ \E t \in TaskIds : Write(t)
    \/ \E t \in TaskIds : Ping(t)
    \/ \E t \in TaskIds : WifiScan(t)
    \/ \E t \in TaskIds : WifiAdd(t)
    \/ \E t \in TaskIds : WifiList(t)
    \/ \E t \in TaskIds : WifiClear(t)
    \/ \E t \in TaskIds : WifiConnect(t)
    \/ \E t \in TaskIds : AutoConnect(t)
    \/ \E t \in TaskIds : Connect(t)
    \/ \E t \in TaskIds : Connected(t)
    \/ \E t \in TaskIds : RetryUntil(t)

\* one request to the captive portal
SpecPortal == PortalInit /\ [][PortalNext]_vars

MaxTokens == 4

Tokens == {"GET", "/ping", "/", "/app.js", "/nope", "HTTP/1.1", "HTTP/2.0"}

RECURSIVE TokenSeqs(_)
TokenSeqs(n) ==
    IF n = 0 THEN {<<>>}
    ELSE TokenSeqs(n - 1) \cup
         {Append(ts, tk) : ts \in {x \in TokenSeqs(n - 1) : Len(x) = n - 1},
                           tk \in Tokens}

\* the request lines the peers send; <<>> is a peer that sends nothing and
\* closes
RequestLines == {<<>>} \cup {LineOf(ts) : ts \in TokenSeqs(MaxTokens)}

HeaderBlocks ==
    {<<>>, <<<<"Host", "pawbot">>>>,
     <<<<"Content-Type", "application/json">>, <<"Content-Length", "2">>>>}

\* the requests the peers send; after a request line the engine drops, the
\* rest of the request is never read
HttpRequests ==
    {req \in [line : RequestLines, headers : HeaderBlocks, body : {NoBody},
              fault : Faults] :
        BadRequestLine(Split(req.line)) => req.headers = <<>>}

HttpInit ==
    /\ file = FileMissing
    /\ credentials = CredLoad(file)
    /\ net = NetOf(credentials)
    /\ lastOp = Op("init", "", "", Nothing)
    /\ sta = StaOff /\ apActive = TRUE /\ portal = TRUE /\ linkAvail = FALSE
    /\ TaskInit("conn", HandleFrame)
    /\ \E req \in HttpRequests :
          /\ io = [t \in TaskIds |-> IF t = "conn" THEN NewIo(req) ELSE NoIo(NoRequest)]
          /\ static \in IF BadRequestLine(Split(req.line))
                         THEN {{}} ELSE SUBSET {IndexFile, ".///app.js"}
    /\ pure = NoPure
    /\ saved = {}

HttpNext ==
    \/ \E t \in TaskIds : Handle(t)
    \/ \E t \in TaskIds : Ping(t)
    \/ \E t \in TaskIds : Write(t)

\* one connection accepted by the captive-portal server
SpecHttp == HttpInit /\ [][HttpNext]_vars

\* the urls and the route patterns the routing is checked with
Stems == {<<>>, <<"/">>, <<"/", "a">>, <<"/", "a", "/">>, <<"/", "a", "/", "b">>}

Endings == {<<>>, <<".", "j", "s">>, <<".", "c", "s", "s">>,
            <<".", "h", "t", "m", "l">>, <<".", "t", "x", "t">>, <<"j", "s">>}

RouteUrls == {stem \o ending : stem \in Stems, ending \in Endings}

\* the keys a route table has: paths, and prefixes followed by '*'
RoutePatterns ==
    (Stems \ {<<>>}) \cup {Append(stem, "*") : stem \in Stems}
    \cup {<<"/", "a", ".", "j", "s">>}

MaxRoutes == 2

\* a dict has each key once
RECURSIVE RouteTables(_)
RouteTables(n) ==
    IF n = 0 THEN {<<>>}
    ELSE LET shorter == RouteTables(n - 1) IN
         shorter \cup
         {Append(rs, r) : <<rs, r>> \in
             {x \in shorter \X RoutePatterns :
                 /\ Len(x[1]) = n - 1
                 /\ \A i \in 1..Len(x[1]) : x[1][i] # x[2]}}

\* no task, no connection, a function to be called on its own
PureInit(calls) ==
    /\ file = FileMissing
    /\ credentials = CredLoad(file)
    /\ net = NetOf(credentials)
    /\ lastOp = Op("init", "", "", Nothing)
    /\ stack = [t \in TaskIds |-> <<>>]
    /\ rv = [t \in TaskIds |-> NoRv]
    /\ sta = StaOff
    /\ apActive = FALSE
    /\ portal = FALSE
    /\ linkAvail = FALSE
    /\ rlog = [t \in TaskIds |-> NewRlog("isTrue", PyInt(0))]
    /\ log = [t \in TaskIds |-> <<>>]
    /\ running = "none"
    /\ io = [t \in TaskIds |-> NoIo(NoRequest)]
    /\ static = {}
    /\ saved = {}
    /\ pure \in calls

RouteCalls ==
    {[fn |-> "route", routes |-> rs, url |-> u, done |-> FALSE,
      out |-> Served("none", <<>>)] :
        rs \in RouteTables(MaxRoutes), u \in RouteUrls}

RouteInit == PureInit(RouteCalls)

\* the engine routes the request
RouteRequest ==
    /\ pure.fn = "route" /\ ~pure.done
    /\ pure' = [pure EXCEPT !.done = TRUE,
                            !.out = SelectRoute(pure.routes, pure.url)]
    /\ UNCHANGED <<stack, rv, sta, apActive, portal, linkAvail, rlog, log, io,
                   static, running, saved>>
    /\ UNCHANGED storeVars

\* the routing of one request against one route table
SpecRoute == RouteInit /\ [][RouteRequest]_vars

\* the names the radio reports: printable ones, the ends of the printable
\* range, the empty one, ones with a control byte, and ones with bytes over
\* 127, in valid UTF-8 (0xc3 0xa9) and not (0xff)
ScanSsids == {<<>>, <<65>>, <<32, 126>>, <<31>>, <<65, 127>>, <<195, 169>>,
              <<255>>}

ScanBssids == {<<0, 26, 43, 60, 77, 94>>, <<222, 173, 190, 239, 0, 9>>}

ScanRssis == {-70, -40}

ScanEntries ==
    [ssid : ScanSsids, bssid : ScanBssids, rssi : ScanRssis]

MaxNetworks == 2

\* what wlan_sta.scan() returns
ScanLists == UNION {[1..n -> ScanEntries] : n \in 0..MaxNetworks}

ScanCalls ==
    {[fn |-> "scan", networks |-> ns, done |-> FALSE, out |-> NoRv] :
        ns \in ScanLists}

ScanInit == PureInit(ScanCalls)

\* ConnectionManager.scan_available_networks()
ScanAvailableNetworks ==
    /\ pure.fn = "scan" /\ ~pure.done
    /\ \E sorted_networks \in SortedByRssi(pure.networks) :
          pure' = [pure EXCEPT !.done = TRUE,
                               !.out = ScanTuples(sorted_networks)]
    /\ UNCHANGED <<stack, rv, sta, apActive, portal, linkAvail, rlog, log, io,
                   static, running, saved>>
    /\ UNCHANGED storeVars

\* one scan of the networks in range
SpecScan == ScanInit /\ [][ScanAvailableNetworks]_vars

\* what load() finds in the file: nothing, text that is no JSON or a JSON
\* object (kind "object"), or JSON of another type, an array of names
\* (kind "array")
LoadFiles(kind) ==
    IF kind = "object"
    THEN {FileMissing, FileCorrupt}
         \cup {FileJson(d) : d \in DictsOver(Ssids, {"pw1", "pw2"})}
    ELSE {FileJson(<<"home">>), FileJson(<<"home", "office">>)}

\* a store that holds any mapping, beside any file
LoadInit ==
    /\ \E kind \in {"object", "array"} :
          /\ file \in LoadFiles(kind)
          /\ credentials \in DictsOver(Ssids, {"pw1", "pw2"})
          /\ pure = [fn |-> "load", done |-> FALSE, kind |-> kind,
                     before |-> credentials]
    /\ net = NetOf(credentials)
    /\ lastOp = Op("init", "", "", Nothing)
    /\ stack = [t \in TaskIds |-> <<>>]
    /\ rv = [t \in TaskIds |-> NoRv]
    /\ sta = StaOff
    /\ apActive = FALSE
    /\ portal = FALSE
    /\ linkAvail = FALSE
    /\ rlog = [t \in TaskIds |-> NewRlog("isTrue", PyInt(0))]
    /\ log = [t \in TaskIds |-> <<>>]
    /\ running = "none"
    /\ io = [t \in TaskIds |-> NoIo(NoRequest)]
    /\ static = {}
    /\ saved = {}

\* CredManager.load(); the ghost net is left alone, the value loaded need
\* not be a mapping
Load ==
    /\ pure.fn = "load" /\ ~pure.done
    /\ credentials' = CredLoad(file)
    /\ lastOp' = Op("load", "", "", Nothing)
    /\ pure' = [pure EXCEPT !.done = TRUE]
    /\ UNCHANGED <<file, net>>
    /\ UNCHANGED <<stack, rv, sta, apActive, portal, linkAvail, rlog, log, io,
                   static, running, saved>>

\* one call of load()
SpecLoad == LoadInit /\ [][Load]_vars

\* the requests of two clients that change the store
RaceRequests ==
    {Request(PortalLine("POST", "/wifi/clear"), <<>>, NoBody, "none")}
    \cup {Request(PortalLine("POST", "/wifi/add"), JsonHeaders("40"),
                  Text("object", <<<<"ssid", ssid>>, <<"password", password>>>>, 40),
                  "none") :
            ssid \in {"home", "office"}, password \in {"pw1", "pw2"}}

\* the portal runs and two clients have connected, each with a request
\* that changes the store; pure keeps the mapping they found
RaceInit ==
    /\ StoreInit
    /\ sta = StaOff
    /\ apActive = TRUE
    /\ portal = TRUE
    /\ linkAvail = FALSE
    /\ stack = [t \in TaskIds |->
                  IF t = "main" THEN <<Frame("main", "forever", NoLoc)>>
                  ELSE <<HandleFrame>>]
    /\ rv = [t \in TaskIds |-> NoRv]
    /\ rlog = [t \in TaskIds |-> NewRlog("isTrue", PyInt(0))]
    /\ log = [t \in TaskIds |-> <<>>]
    /\ running = "none"
    /\ \E r1 \in RaceRequests, r2 \in RaceRequests :
          io = [t \in TaskIds |->
                  IF t = "conn" THEN NewIo(r1)
                  ELSE IF t = "conn2" THEN NewIo(r2) ELSE NoIo(NoRequest)]
    /\ static = {}
    /\ pure = [fn |-> "race", before |-> credentials]
    /\ saved = {}

RaceNext ==
    \/ \E t \in TaskIds : Handle(t)
    \/ \E t \in TaskIds : Write(t)
    \/ \E t \in TaskIds : WifiAdd(t)
    \/ \E t \in TaskIds : WifiClear(t)

\* two overlapping requests that change the store
SpecRace == RaceInit /\ [][RaceNext]_vars

----------------------------------------------------------------------------
(* Properties of the credential store, under SpecStore *)

\* the file holds the mapping creds
FileHolds(f, creds) == Loadable(f) /\ NetOf(f.data) = NetOf(creds)

Mutated ==
    \/ lastOp.op \in {"add", "clear"}
    \/ lastOp.op = "remove" /\ lastOp.ret = <<"present">>

\* C1: after every completed call of a mutator (add, remove of a present
\* name, clear) the backing file holds the in-memory mapping.
C1_FilePersisted == Mutated => FileHolds(file, credentials)

\* C2: list() returns exactly the net effect of the add, remove and clear
\* calls made so far: one pair per name added and not later removed or
\* cleared, with the secret added last, and no name twice.
C2_ListIsNetEffect ==
    LET l == CredList(credentials)
        live == {s \in Ssids : net[s] # Absent}
    IN  /\ {l[i] : i \in 1..Len(l)} = {<<s, net[s]>> : s \in live}
        /\ Len(l) = Cardinality(live)

\* a store that started empty, after add(home, pw1), add(home, pw2) or the
\* like and with office added and removed or never added: list is called
C2_Witness ==
    /\ file = FileMissing
    /\ lastOp.op = "list"
    /\ lastOp.ret = <<<<"home", "pw2">>>>

\* C3 as stated: get(name) right after add(name, secret) returns (name,
\* secret) for every secret, and right after remove(name) returns nothing.
C3_GetAfterAddAnySecret ==
    /\ lastOp.op = "add" =>
          CredGet(credentials, lastOp.ssid) = <<lastOp.ssid, lastOp.password>>
    /\ lastOp.op = "remove" => CredGet(credentials, lastOp.ssid) = Nothing

\* C3 amended: get(name) right after add(name, secret) returns (name, secret)
\* for every non-empty secret and nothing for the empty secret, and right
\* after remove(name) returns nothing.
C3_GetAfterAdd ==
    /\ lastOp.op = "add" /\ Truthy(lastOp.password) =>
          CredGet(credentials, lastOp.ssid) = <<lastOp.ssid, lastOp.password>>
    /\ lastOp.op = "add" /\ ~Truthy(lastOp.password) =>
          CredGet(credentials, lastOp.ssid) = Nothing
    /\ lastOp.op = "remove" => CredGet(credentials, lastOp.ssid) = Nothing

\* add has replaced the secret of a name the store already held
C3_Witness ==
    /\ lastOp.op = "add"
    /\ lastOp.password = "pw2"
    /\ Len(credentials) = 2
    /\ credentials[1] = <<lastOp.ssid, "pw2">>

----------------------------------------------------------------------------
(* Properties of retry_until and of the ConnectionManager's methods called *)
(* on their own, under SpecConn                                            *)

\* C4: retry_until returns (True, result) at the first attempt whose result
\* satisfies the predicate: the action is invoked no further and no delay
\* follows that attempt; a first attempt that satisfies it means one
\* invocation and no delay.
C4_ReturnsAtFirstSuccess ==
    \A t \in TaskIds :
        LET r == rlog[t] IN
        r.sat > 0 =>
            /\ r.out = "ret" /\ r.ok = "True"
            /\ Predicate(r.pred, r.result)
            /\ r.calls = r.sat
            /\ r.delays < r.sat
            /\ r.sat = 1 => r.delays = 0

\* a direct call whose first attempt satisfied the predicate has returned
C4_Witness ==
    /\ At("main", "driver") /\ Top("main").loc.call = "retry_until"
    /\ rv["main"] = Ret(<<"True", rlog["main"].result>>)
    /\ rlog["main"].sat = 1 /\ rlog["main"].calls = 1 /\ rlog["main"].delays = 0

\* C5: with a predicate that no attempt satisfies, retry_until invokes the
\* action exactly max_retries times and returns (False, None).
C5_ExhaustsAllRetries ==
    \A t \in TaskIds :
        LET r == rlog[t] IN
        r.out = "ret" /\ r.sat = 0 =>
            /\ ~r.max.float
            /\ r.calls = r.max.num
            /\ r.ok = "False" /\ r.result = "None"

\* a direct call with max_retries = MaxRetries has made all its attempts
C5_Witness ==
    /\ At("main", "driver") /\ Top("main").loc.call = "retry_until"
    /\ rv["main"] = Ret(<<"False", "None">>)
    /\ rlog["main"].max = PyInt(MaxRetries)
    /\ rlog["main"].calls = MaxRetries

\* C27: retry_until sleeps delay_ms once after every attempt whose result
\* fails the predicate, the last attempt included: a call that exhausts its
\* attempts has slept exactly max_retries times when it returns failure,
\* and a call that succeeds at attempt k has slept exactly k - 1 times.
C27_DelayAfterEveryFailure ==
    \A t \in TaskIds :
        LET r == rlog[t] IN
        /\ r.out = "running" => r.calls - r.delays \in {0, 1}
        /\ r.out = "ret" /\ r.ok = "False" =>
              /\ r.delays = r.calls
              /\ r.delays = r.max.num
        /\ r.out = "ret" /\ r.ok = "True" =>
              /\ r.sat = r.calls
              /\ r.delays = r.sat - 1

\* a direct call with max_retries = MaxRetries has failed at every attempt
\* and has slept after the last one
C27_Witness ==
    /\ At("main", "driver") /\ Top("main").loc.call = "retry_until"
    /\ rlog["main"].out = "ret" /\ rlog["main"].ok = "False"
    /\ rlog["main"].max = PyInt(MaxRetries)
    /\ rlog["main"].delays = MaxRetries

Idx(L, e) == {i \in 1..Len(L) : L[i].e = e}

\* the call the driver made last has returned or raised
DriverDone(call) ==
    /\ At("main", "driver")
    /\ Top("main").pc = "idle"
    /\ Top("main").loc.call = call

\* C6: connect(name, secret, timeout_ms) against a station that never
\* reports connected polls at most timeout_ms/1000 times, then returns False
\* with the station radio deactivated; it does not end with an exception.
C6_ConnectTimesOut ==
    LET L == log["main"]
        d == Top("main").loc
        polls == Idx(L, "poll:connected")
    IN  DriverDone("connect") /\ (\A i \in polls : L[i].a = "False") =>
            /\ d.out = Ret("False")
            /\ Cardinality(polls) <= d.args.timeout_ms \div DelayMs
            /\ ~sta.active

\* C9: auto_connect calls connect for the stored credentials in store
\* order, returns True at the first success without trying a later one,
\* and returns False when the store is empty (connect not called, station
\* radio not touched) or when connect failed for every credential.
C9_AutoConnectTriesInOrder ==
    LET L == log["main"]
        d == Top("main").loc
        creds == CredList(credentials)
        tried == [i \in 1..Cardinality(Idx(L, "call:connect")) |->
                     L[CHOOSE j \in Idx(L, "call:connect") :
                         Cardinality({k \in Idx(L, "call:connect") : k <= j}) = i].a]
    IN  DriverDone("auto_connect") =>
            /\ d.out.kind = "ret"
            /\ Len(tried) <= Len(creds)
            /\ \A i \in 1..Len(tried) : tried[i] = creds[i][1]
            /\ d.out = Ret("False") =>
                  /\ Len(tried) = Len(creds)
                  /\ Cardinality(Idx(L, "ret:connect")) = Len(creds)
                  /\ \A i \in Idx(L, "ret:connect") : L[i].a = "False"
            /\ d.out = Ret("True") =>
                  /\ Len(tried) >= 1
                  /\ L[Len(L) - 1] = Ev("ret:connect", "True")
            /\ creds = <<>> => d.out = Ret("False") /\ Idx(L, "sta") = {}

\* C20: disconnect() returns True without a radio disconnect, a poll or a
\* delay when the station is not connected; when it is connected, it issues
\* exactly one radio disconnect, polls connectivity at most 3 times, and
\* returns True exactly when one of those polls reports not connected.
C20_Disconnect ==
    LET L == log["main"]
        d == Top("main").loc
        checks == Idx(L, "check:disconnect")
        polls == Idx(L, "poll:disconnect")
        discs == {i \in Idx(L, "sta") : L[i].a = "disconnect"}
    IN  DriverDone("disconnect") =>
            /\ Cardinality(checks) = 1
            /\ d.out \in {Ret("True"), Ret("False")}
            /\ \A i \in checks :
                  /\ L[i].a = "False" =>
                        /\ d.out = Ret("True")
                        /\ discs = {} /\ polls = {}
                        /\ rlog["main"].delays = 0
                  /\ L[i].a = "True" =>
                        /\ Cardinality(discs) = 1
                        /\ Cardinality(polls) <= 3
                        /\ d.out = Ret("True") <=>
                              \E j \in polls : L[j].a = "False"

\* disconnect() found the station connected, saw it still connected at two
\* polls and not connected at the third
C20_Witness ==
    LET L == log["main"] IN
    /\ DriverDone("disconnect")
    /\ Top("main").loc.out = Ret("True")
    /\ Cardinality(Idx(L, "poll:disconnect")) = 3
    /\ rlog["main"].delays = 2
    /\ \E i \in Idx(L, "sta") : L[i].a = "disconnect"

----------------------------------------------------------------------------
(* Properties of the boot sequence, under Spec *)

MainStopped ==
    \/ stack["main"] = <<>>
    \/ At("main", "main") /\ Top("main").pc = "forever"

MainCrashed == stack["main"] = <<>> /\ rv["main"].kind = "exc"

BootSucceeded == \E i \in 1..Len(log["main"]) : log["main"][i] = Ev("ret:boot", "True")

\* C7: when the boot sequence does not connect, the device ends up with the
\* access point active and the captive portal started; it does not end in
\* a crash with neither.
C7_FallsBackToAccessPoint ==
    MainStopped /\ ~BootSucceeded => ~MainCrashed /\ apActive /\ portal

\* C8: boot() first runs disconnect(), then polls connectivity at most 3
\* times; if one of those polls reports connected it returns True without
\* calling auto_connect, and otherwise it calls auto_connect exactly once
\* and returns its result; nothing before the call of auto_connect raises.
C8_BootSequence ==
    \A t \in TaskIds :
        LET L == log[t]
            autoAt == Idx(L, "call:auto_connect")
            bootPolls == {i \in Idx(L, "poll:connected") : \A j \in autoAt : i < j}
            sawConnected == \E i \in bootPolls : L[i].a = "True"
            bootRet == Idx(L, "ret:boot")
        IN  Len(L) >= 1 /\ L[1].e = "call:boot" =>
                /\ Len(L) >= 2 => L[2].e = "call:disconnect"
                /\ \A i \in bootPolls \cup autoAt \cup bootRet :
                       \E j \in Idx(L, "ret:disconnect") : j < i
                /\ Cardinality(bootPolls) <= ConnectedRetries
                /\ Cardinality(autoAt) <= 1
                /\ \A i \in Idx(L, "raise") : \E j \in autoAt : j < i
                /\ sawConnected =>
                       /\ autoAt = {}
                       /\ \A i \in bootRet : L[i].a = "True"
                /\ autoAt # {} => ~sawConnected
                /\ \A i \in bootRet : ~sawConnected =>
                       /\ Cardinality(autoAt) = 1
                       /\ \E j \in Idx(L, "ret:auto_connect") :
                              j < i /\ L[j].a = L[i].a

\* boot found the station not connected at each of its 3 polls, called
\* auto_connect and returned what it returned
C8_Witness ==
    LET L == log["main"] IN
    /\ Len(L) >= 2
    /\ L[Len(L)] = Ev("ret:boot", "False")
    /\ L[Len(L) - 1] = Ev("ret:auto_connect", "False")
    /\ Cardinality(Idx(L, "poll:connected")) = ConnectedRetries

----------------------------------------------------------------------------
(* Properties of the HTTP engine, under SpecHttp *)

\* C10: for a request line that does not split into exactly three tokens
\* (an empty line included) the engine writes no response byte, invokes no
\* route handler, and closes the connection.
C10_BadRequestLineDropped ==
    \A t \in TaskIds :
        io[t].ended /\ Len(Split(io[t].req.line)) # 3 =>
            /\ io[t].written = <<>>
            /\ io[t].invoked = <<>>
            /\ io[t].closed

\* C11: every run of handle closes the connection before the task ends,
\* on every exit path: normal completion, an error response, an exception
\* of a handler or of the transport, and an early return.
C11_AlwaysClosed ==
    \A t \in TaskIds : io[t].ended => io[t].closed

\* the status lines of error responses among the chunks written
ErrorStatusAt(written) ==
    {i \in 1..Len(written) :
        /\ written[i].kind = "status"
        /\ written[i].code \in {400, 404, 500, 505}}

\* the chunk is a body of JSON text of the form {"error": <message>}
IsJsonError(chunk) ==
    /\ chunk.kind = "body"
    /\ chunk.mime = "json"
    /\ Len(chunk.val) = 1
    /\ chunk.val[1][1] = "error"

\* C17: every error response, of status 400, 404, 500 or 505, that the
\* server has sent in full has the status code in its status line and a
\* JSON body of the form {"error": <message>}; the 404 of an unknown route
\* and the 505 of an unsupported version included.
C17_ErrorBodiesAreJson ==
    \A t \in TaskIds :
        io[t].ended /\ ~io[t].broken =>
            \A i \in ErrorStatusAt(io[t].written) :
                /\ i = 1
                /\ IsJsonError(io[t].written[Len(io[t].written)])

\* C21: a request line of three tokens whose version is neither HTTP/1.0
\* nor HTTP/1.1 is answered with the 505 error response; no header line is
\* read, no route handler is invoked, and the connection is closed.  The
\* response is complete when the transport works; the connection is closed
\* also when a write of the response fails.
C21_UnsupportedVersion ==
    \A t \in ConnIds :
        LET c == io[t]
            items == Split(c.req.line)
        IN  c.ended /\ Len(items) = 3
                    /\ items[3] \notin {"HTTP/1.0", "HTTP/1.1"} =>
                /\ c.hread = 0
                /\ c.invoked = <<>>
                /\ c.written # <<>> => c.closed
                /\ ~c.broken =>
                      /\ c.closed
                      /\ Len(c.written) = 2
                      /\ c.written[1].kind = "status"
                      /\ c.written[1].code = 505
                      /\ c.written[2].kind = "body"

\* a request of version HTTP/2.0 with header lines was answered 505 and
\* closed
C21_Witness ==
    \E t \in ConnIds :
        /\ io[t].ended /\ ~io[t].broken /\ io[t].closed
        /\ Split(io[t].req.line) = <<"GET", "/ping", "HTTP/2.0">>
        /\ Len(io[t].req.headers) = 2
        /\ Len(io[t].written) = 2
        /\ io[t].written[1].code = 505

\* the status lines among the chunks written
StatusLinesAt(written) ==
    {i \in 1..Len(written) : written[i].kind = "status"}

\* C25: on every connection on which the engine writes anything, exactly
\* one status line is written, and it is written first, before any body;
\* for a route handler, the index document, a static asset, the 404 and the
\* 505, and when the file to serve is missing.
C25_OneStatusLineFirst ==
    \A t \in ConnIds :
        io[t].written # <<>> => StatusLinesAt(io[t].written) = {1}

----------------------------------------------------------------------------
(* Properties of the captive portal's handlers, under SpecPortal *)

\* the body holds no JSON object with a non-empty ssid and a non-empty
\* password
Lacking(body) ==
    \/ body.kind # "object"
    \/ ~DictHas(body.obj, "ssid") \/ ~DictHas(body.obj, "password")
    \/ DictVal(body.obj, "ssid") = "" \/ DictVal(body.obj, "password") = ""

\* connection c got the error response of status code whose body is
\* {"error": message}
AnsweredError(c, code, message) ==
    /\ Len(c.written) > 1
    /\ c.written[1].kind = "status"
    /\ c.written[1].code = code
    /\ IsJsonError(c.written[Len(c.written)])
    /\ c.written[Len(c.written)].val[1][2] = message

\* connection c got the response of status 200 whose body is
\* {"status": status}
AnsweredStatus(c, status) ==
    /\ Len(c.written) > 1
    /\ c.written[1].kind = "status"
    /\ c.written[1].code = 200
    /\ c.written[Len(c.written)].kind = "body"
    /\ c.written[Len(c.written)].mime = "json"
    /\ c.written[Len(c.written)].val = <<<<"status", status>>>>

\* C13: a POST /wifi/add whose body lacks a non-empty ssid or a non-empty
\* password (field missing or empty, or a body that is no JSON object) is
\* answered with status 400 and the message "both ssid and password must be
\* provided", and the credentials and the file stay as they were.
C13_AddRejectsIncomplete ==
    \A t \in ConnIds :
        LET c == io[t] IN
        c.ended /\ ~c.broken /\ c.invoked = <<"/wifi/add">>
                /\ Lacking(c.req.body) =>
            /\ AnsweredError(c, 400, "both ssid and password must be provided")
            /\ ~c.touched
            /\ lastOp = Op("init", "", "", Nothing)

C18_HandlerCatchesAll ==
    \A t \in ConnIds :
        LET c == io[t] IN
        c.ended /\ c.raised # <<>> =>
            /\ c.escaped = ""
            /\ AnsweredError(c, 500, "Internal Server Error")

\* C22: when the peer resets the connection at an I/O step of a request
\* (reading the request line, the headers or the body, writing the
\* response), the task of the connection ends with no exception, no write
\* of a response is attempted after the reset, and the connection is
\* closed.
C22_ResetIsDropped ==
    \A t \in ConnIds :
        LET c == io[t] IN
        c.ended /\ c.broken /\ c.req.fault = "ECONNRESET" =>
            /\ c.closed
            /\ stack[t] = <<>> => rv[t].kind # "exc"
            /\ ~c.late

----------------------------------------------------------------------------
(* Properties of the connections of the captive portal, under Spec *)

\* the stores with the names of d in the order of d, and any secrets
Resecreted(d) ==
    {e \in [1..Len(d) -> Ssids \X {"pw1", "pw2"}] :
        \A i \in 1..Len(d) : e[i][1] = d[i][1]}

\* the bodies of /wifi/list responses among the chunks written
ListBodiesAt(written) ==
    {i \in 1..Len(written) :
        /\ written[i].kind = "body"
        /\ written[i].mime = "json"
        /\ Len(written[i].val) = 1
        /\ written[i].val[1][1] = "credentials"}

\* C14: once a POST /wifi/add of a non-empty ssid and password was answered
\* "credentials saved", every GET /wifi/list handled later, with no clear of
\* the store since that add, answers a list with an entry of that ssid;
\* every entry of every /wifi/list response is the ssid and the password
\* "****"; the response computed from the store is the one computed from
\* any store with the same names and other secrets.
C14_ListMasksSecrets ==
    /\ \A t \in ConnIds : \A i \in ListBodiesAt(io[t].written) :
          LET entries == io[t].written[i].val[1][2] IN
          /\ \A k \in 1..Len(entries) :
                /\ Len(entries[k]) = 2
                /\ entries[k][1][1] = "ssid"
                /\ entries[k][2] = <<"password", "****">>
          /\ \A ssid \in io[t].snap :
                \E k \in 1..Len(entries) : entries[k][1] = <<"ssid", ssid>>
    /\ \A d \in Resecreted(credentials) :
          WifiListJson(CredList(d)) = WifiListJson(CredList(credentials))

\* a /wifi/list handled after "home" was added and answered has answered
\* the entry of "home" with the masked password
C14_Witness ==
    \E t \in ConnIds :
        /\ io[t].ended /\ ~io[t].broken
        /\ io[t].invoked = <<"/wifi/list">>
        /\ io[t].snap = {"home"}
        /\ Len(io[t].written) = 3
        /\ io[t].written[3].val =
              <<<<"credentials",
                  <<<<<<"ssid", "home">>, <<"password", "****">>>>>>>>>>

\* task t is inside connect or disconnect: between the start of the call
\* and its return, its retry polling included
Inside(t) ==
    \E i \in 1..Len(stack[t]) : stack[t][i].fn \in {"connect", "disconnect"}

\* the access-point toggles task t has run
ApToggles(t) == Cardinality({i \in 1..Len(log[t]) : log[t][i].e = "ap"})

\* C19: connect, disconnect and the access-point toggles never interleave:
\* while a task is inside connect or disconnect, no other task is inside
\* connect or disconnect, enters one, or runs enable_ap or disable_ap,
\* however the requests to the portal overlap.
C19_NoInterleaving ==
    [][\A t \in TaskIds : Inside(t) =>
          \A u \in TaskIds \ {t} :
              /\ ~Inside(u)
              /\ ~Inside(u)'
              /\ ApToggles(u)' <= ApToggles(u)]_vars

\* a connection is inside connect while the other connection is open
C19_Witness ==
    \E t \in ConnIds :
        /\ Inside(t)
        /\ io[t].invoked = <<"/wifi/connect">>
        /\ \E u \in ConnIds \ {t} : stack[u] # <<>> /\ ~io[u].ended

----------------------------------------------------------------------------
(* Properties of load(), under SpecLoad *)

\* C23: when the file is missing or cannot be read as a mapping (no JSON,
\* or JSON that is no object), load() ends with no error and leaves the
\* mapping empty, whatever it held before.
C23_LoadFailureEmpties ==
    pure.fn = "load" /\ pure.done
            /\ (~Loadable(file) \/ pure.kind = "array") =>
        credentials = <<>>

\* C24: once the boot sequence has ended without a connection, in every
\* state in which no task is inside connect or disconnect, and whatever
\* requests the portal has served, the device can be reached: the station
\* is connected or the access point is active.  (After a boot that found
\* the station connected, reachability rests on the radio keeping its
\* association, which no request changes.)
C24_DeviceReachable ==
    MainStopped /\ ~BootSucceeded /\ (\A t \in TaskIds : ~Inside(t)) =>
        IsConnected \/ apActive

----------------------------------------------------------------------------
(* Properties of overlapping changes of the store, under SpecRace *)

\* the mapping d after the mutation of request req: clear() or add(ssid,
\* password)
Applied(req, d) ==
    IF Split(req.line)[2] = "/wifi/clear" THEN <<>>
    ELSE DictSet(d, DictVal(req.body.obj, "ssid"),
                 DictVal(req.body.obj, "password"))

AllEnded == \A t \in ConnIds : io[t].ended

\* C26: however the handlers of overlapping POST /wifi/add and POST
\* /wifi/clear requests interleave at their awaits, once all of them have
\* completed the file holds the mapping that is in memory, and that mapping
\* is what the mutations of the requests give in one of their serial
\* orders.
C26_Serializable ==
    AllEnded =>
        LET r1 == io["conn"].req
            r2 == io["conn2"].req
        IN  /\ FileHolds(file, credentials)
            /\ \/ NetOf(credentials) = NetOf(Applied(r2, Applied(r1, pure.before)))
               \/ NetOf(credentials) = NetOf(Applied(r1, Applied(r2, pure.before)))

\* an add and a clear that overlapped have completed, the clear first
C26_Witness ==
    /\ AllEnded
    /\ pure.before = <<>>
    /\ Split(io["conn"].req.line)[2] = "/wifi/add"
    /\ Split(io["conn2"].req.line)[2] = "/wifi/clear"
    /\ credentials # <<>>
    /\ io["conn"].touched /\ io["conn2"].touched

----------------------------------------------------------------------------
(* Properties of the routing, under SpecRoute *)

\* the least element of a non-empty set of indexes
Least(S) == CHOOSE i \in S : \A j \in S : i <= j

----------------------------------------------------------------------------
(* Properties of the network scan, under SpecScan *)

\* the position of entry i of the scan in a stable sort by strength descending
Rank(networks, i) ==
    1 + Cardinality({j \in 1..Len(networks) :
            \/ networks[j].rssi > networks[i].rssi
            \/ networks[j].rssi = networks[i].rssi /\ j < i})

\* C16: scan_available_networks() returns exactly the entries whose name is
\* non-empty with every byte in [32,126], each as (name, colon-hex hardware
\* address, strength), by strength descending, entries of equal strength in
\* scan order; any other entry is dropped and the scan does not fail.
C16_ScanFiltersAndSorts ==
    pure.fn = "scan" /\ pure.done =>
        LET networks == pure.networks
            n == Len(networks)
            stable == [k \in 1..n |->
                          networks[CHOOSE i \in 1..n : Rank(networks, i) = k]]
            kept == SelectSeq(stable, LAMBDA e :
                        /\ e.ssid # <<>>
                        /\ \A i \in 1..Len(e.ssid) : e.ssid[i] \in 32..126)
            address(e) == IF e.bssid = <<0, 26, 43, 60, 77, 94>>
                          THEN "00:1a:2b:3c:4d:5e" ELSE "de:ad:be:ef:00:09"
        IN  /\ pure.out.kind = "ret"
            /\ pure.out.val = [k \in 1..Len(kept) |->
                  <<kept[k].ssid, address(kept[k]), kept[k].rssi>>]

====
